---- MODULE Spec2Model ----
(***************************************************************************)
(* Model of src/v2/normalized_packages.py: the two constructors            *)
(* NormalizedPackages.__init__ and GoNormalizedPackages.__init__, the      *)
(* identifier parser get_golang_metadata and the read-only views.          *)
(*                                                                         *)
(* A name is a sequence of one-character strings, so that the test         *)
(* '"@" in name' and name.split("@") are computed rather than assumed.     *)
(* A version is an atomic string; the two collaborators of f8a_utils       *)
(* (clean_version, is_pseudo_version) are tables over those strings.       *)
(* An Optional[List] is <<>> for None and <<list>> for a list.             *)
(***************************************************************************)
EXTENDS Integers, Sequences, FiniteSets, TLC

VARIABLES
    packages,   \* the caller-owned list of Package records handed to the constructors
    ecosystem,  \* the ecosystem tag of the request
    np,         \* the normalizer object the last constructor call produced
    outcome,    \* how the last constructor call ended
    built,      \* _dependency_graph as it was when the last constructor returned
    given,      \* the package list as it was when the last constructor was called
    prev,       \* outcome and object of the constructor call before the last one
    result      \* what the last view access returned to the consumer

vars == <<packages, ecosystem, np, outcome, built, given, prev, result>>

----------------------------------------------------------------------------
(* Bounds and input domains *)

MaxRecords == 3
MaxRecordsMalformed == 2
MaxRecordsViews == 2

At == "@"

Ecosystems == { "npm", "golang" }

\* <<name, version>> of the records a request may hold, in name@module form
WellFormed ==
    { << <<"a", At, "m">>, "1.0.0+incompatible" >>,
      << <<"a", At, "n">>, "1.0.0+incompatible" >>,
      << <<"a", At, "m">>, "0.0.0-a" >>,
      << <<"a", At, "n">>, "0.0.0-b" >>,
      << <<"b", At, "m">>, "0.0.0-a" >>,
      << <<"b", At, "m">>, "1.0.0+incompatible" >> }

\* names without a separator and with two
Malformed ==
    { << <<"a">>, "1.0.0+incompatible" >>,
      << <<"a", At, "m", At, "n">>, "0.0.0-a" >> }

\* an identity no request of this model holds
Absent == [name |-> <<"z">>, version |-> "9.9.9"]

----------------------------------------------------------------------------
(* Collaborators *)

\* GolangDependencyTreeGenerator.clean_version: (metadata, cleaned version)
clean_version(version) ==
    CASE version = "1.0.0+incompatible" -> <<TRUE, "1.0.0">>
      [] version = "1.0.0" -> <<TRUE, "1.0.0">>
      [] OTHER -> <<FALSE, version>>

\* GithubUtils.is_pseudo_version
is_pseudo_version(version) == version \in {"0.0.0-a", "0.0.0-b"}

----------------------------------------------------------------------------
(* Python values *)

EmptyDict == [k \in {} |-> k]

\* d[k] = v
DictSet(d, k, v) == (k :> v) @@ d

\* "x or y" on a set: an empty set is falsy
OrSet(x, y) == IF x = {} THEN y ELSE x

\* "package.dependencies or []": None and [] are falsy
OrList(opt) == IF opt = <<>> THEN <<>> ELSE opt[1]

\* The hash/equality key of a Package object: its name and version
Key(package) == [name |-> package.name, version |-> package.version]

\* Package(name=p.name, version=p.version): the clone without dependencies
Clone(package) == [name |-> package.name, version |-> package.version]

\* defaultdict(set).__getitem__: a missing key is inserted with an empty set
DefaultGet(graph, k) == IF k \in DOMAIN graph THEN graph ELSE DictSet(graph, k, {})

\* "@" in name
Contains(name, c) == \E i \in 1..Len(name) : name[i] = c

\* name.split("@")
RECURSIVE SplitFrom(_, _, _, _)
SplitFrom(name, i, cur, acc) ==
    IF i > Len(name) THEN Append(acc, cur)
    ELSE IF name[i] = At THEN SplitFrom(name, i + 1, <<>>, Append(acc, cur))
    ELSE SplitFrom(name, i + 1, Append(cur, name[i]), acc)

Split(name) == SplitFrom(name, 1, <<>>, <<>>)

----------------------------------------------------------------------------
(* NormalizedPackages.__init__ *)

\* EnsureKey without the "or": graph[package_clone] = set()
EnsureKeyOverwrite(graph, package_clone) == DictSet(graph, package_clone, {})

\* graph[package_clone] = graph[package_clone] or set()
EnsureKey(graph, package_clone) ==
    LET g == DefaultGet(graph, package_clone)
    IN  DictSet(g, package_clone, OrSet(g[package_clone], {}))

\* AddDep that also touches graph[trans_clone]
AddDepTouch(graph, package, trans_clone) ==
    LET g == DefaultGet(graph, Key(package))
    IN  DefaultGet([g EXCEPT ![Key(package)] = @ \cup {trans_clone}], trans_clone)

\* graph[package].add(trans_clone): the bucket is found by the outer package's key
AddDep(graph, package, trans_clone) ==
    LET g == DefaultGet(graph, Key(package))
    IN  [g EXCEPT ![Key(package)] = @ \cup {trans_clone}]

\* GenericClone with a golang branch: module suffix stripped, version cleaned
GenericCloneLegacy(package, eco) ==
    IF eco = "golang"
    THEN [name |-> Split(package.name)[1], version |-> clean_version(package.version)[2]]
    ELSE Clone(package)

\* the identity-only clone of a top-level package in the generic constructor
GenericClone(package, eco) == Clone(package)

\* for trans_package in package.dependencies or []: ...
RECURSIVE GenericDeps(_, _, _)
GenericDeps(graph, package, deps) ==
    IF deps = <<>> THEN graph
    ELSE GenericDeps(AddDep(graph, package, Clone(Head(deps))), package, Tail(deps))

\* for package in packages: ...
RECURSIVE GenericPackages(_, _, _)
GenericPackages(graph, pkgs, eco) ==
    IF pkgs = <<>> THEN graph
    ELSE LET package == Head(pkgs)
             g == EnsureKey(graph, GenericClone(package, eco))
         IN  GenericPackages(GenericDeps(g, package, OrList(package.dependencies)),
                             Tail(pkgs), eco)

\* Transitives without the packages that are also top-level
TransitivesOnly(graph) == UNION { graph[k] : k \in DOMAIN graph } \ DOMAIN graph

\* {d for dep in graph.values() for d in dep}
Transitives(graph) == UNION { graph[k] : k \in DOMAIN graph }

\* frozenset(graph.keys())
Directs(graph) == DOMAIN graph

\* directs.union(transitives)
AllOf(directs, transitives) == directs \cup transitives

\* all.difference(pseudo)
AllExceptPseudo(all, pseudo) == all \ pseudo

\* the object's attributes once the loops are over
Object(kind, eco, graph, modules, version_map, pseudo) ==
    [ kind |-> kind, ecosystem |-> eco, graph |-> graph,
      transitives |-> Transitives(graph),
      directs |-> Directs(graph),
      all |-> AllOf(Directs(graph), Transitives(graph)),
      modules |-> modules, version_map |-> version_map, pseudo |-> pseudo,
      all_except_pseudo |->
          AllExceptPseudo(AllOf(Directs(graph), Transitives(graph)), pseudo) ]

\* no object: nothing constructed yet, or the constructor raised
NoObject == Object("none", "none", EmptyDict, <<>>, EmptyDict, {})

NormalizedPackages(pkgs, eco) ==
    Object("generic", eco, GenericPackages(EmptyDict, pkgs, eco),
           <<>>, EmptyDict, {})

----------------------------------------------------------------------------
(* GoNormalizedPackages *)

get_golang_metadata(package) ==
    IF ~Contains(package.name, At)
    THEN [status |-> "BadRequest", name |-> <<>>, version |-> "", module |-> <<>>]
    ELSE LET parts == Split(package.name)
         IN  IF Len(parts) # 2
             THEN \* unpacking into two names raises ValueError
                  [status |-> "ValueError", name |-> <<>>, version |-> "", module |-> <<>>]
             ELSE [status |-> "ok", name |-> parts[1],
                   version |-> clean_version(package.version)[2], module |-> parts[2]]

\* PseudoOwner attributing the flag to the dependency itself
PseudoOwnerDependency(package_clone, trans_clone) == trans_clone

\* which clone self.pseudo.add receives for a pseudo dependency
PseudoOwner(package_clone, trans_clone) == package_clone

\* VersionMapPut that keeps the first version recorded for a name
VersionMapPutFirst(version_map, name, version) ==
    IF name \in DOMAIN version_map THEN version_map ELSE DictSet(version_map, name, version)

\* self._version_map[name] = version
VersionMapPut(version_map, name, version) == DictSet(version_map, name, version)

\* one iteration of the inner loop, on dependency j of st.package
GoDepStep(st, package_clone, j) ==
    LET deps == st.package.dependencies[1]
        meta == get_golang_metadata(deps[j])
    IN  IF meta.status # "ok" THEN [st EXCEPT !.status = meta.status]
        ELSE LET trans_package == [deps[j] EXCEPT !.name = meta.name,
                                                  !.version = meta.version]
                 trans_clone == Clone(trans_package)
                 package == [st.package EXCEPT
                                !.dependencies = << [deps EXCEPT ![j] = trans_package] >>]
                 ps == is_pseudo_version(trans_package.version)
             IN  [ status |-> "ok", package |-> package,
                   modules |-> IF ps THEN Append(st.modules, meta.module) ELSE st.modules,
                   version_map |-> IF ps THEN VersionMapPut(st.version_map,
                                                  trans_package.name, trans_package.version)
                                   ELSE st.version_map,
                   pseudo |-> IF ps THEN st.pseudo \cup {PseudoOwner(package_clone, trans_clone)}
                              ELSE st.pseudo,
                   graph |-> AddDep(st.graph, package, trans_clone) ]

RECURSIVE GoDeps(_, _, _)
GoDeps(st, package_clone, j) ==
    IF st.status # "ok" \/ j > Len(OrList(st.package.dependencies)) THEN st
    ELSE GoDeps(GoDepStep(st, package_clone, j), package_clone, j + 1)

\* one iteration of the outer loop, on the top-level package raw
GoPackageStep(acc, raw) ==
    LET meta == get_golang_metadata(raw)
    IN  IF meta.status # "ok"
        THEN [acc EXCEPT !.status = meta.status, !.package = raw]
        ELSE LET package == [raw EXCEPT !.name = meta.name, !.version = meta.version]
                 package_clone == Clone(package)
                 ps == is_pseudo_version(package.version)
                 st == [ status |-> "ok", package |-> package,
                         modules |-> IF ps THEN Append(acc.modules, meta.module)
                                     ELSE acc.modules,
                         version_map |-> IF ps THEN VersionMapPut(acc.version_map,
                                                        package.name, package.version)
                                         ELSE acc.version_map,
                         pseudo |-> IF ps THEN acc.pseudo \cup {package_clone}
                                    ELSE acc.pseudo,
                         graph |-> EnsureKey(acc.graph, package_clone) ]
             IN  GoDeps(st, package_clone, 1)

\* the outer loop; done holds the records already visited, as the loop left them
RECURSIVE GoPackages(_, _, _)
GoPackages(acc, done, todo) ==
    IF todo = <<>> THEN [run |-> acc, packages |-> done]
    ELSE LET st == GoPackageStep(acc, Head(todo))
         IN  IF st.status # "ok"
             THEN [run |-> st, packages |-> Append(done, st.package) \o Tail(todo)]
             ELSE GoPackages(st, Append(done, st.package), Tail(todo))

GoStart ==
    [ status |-> "ok", package |-> [name |-> <<>>, version |-> "", dependencies |-> <<>>],
      modules |-> <<>>, version_map |-> EmptyDict, pseudo |-> {}, graph |-> EmptyDict ]

\* the constructor call: how it ended, the object, and the caller's records afterwards
GoNormalizedPackages(pkgs, eco) ==
    LET r == GoPackages(GoStart, <<>>, pkgs)
    IN  [ status |-> r.run.status,
          packages |-> r.packages,
          object |-> IF r.run.status = "ok"
                     THEN Object("go", eco, r.run.graph, r.run.modules,
                                 r.run.version_map, r.run.pseudo)
                     ELSE NoObject ]

----------------------------------------------------------------------------
(* Views *)

\* tuple(self._directs)
direct_dependencies(o) == o.directs

\* tuple(self._transtives)
transitive_dependencies(o) == o.transitives

\* tuple(self._all)
all_dependencies(o) == o.all

\* tuple(set(self._modules)): each module once, in no particular order
modules(o) == [m \in { o.modules[i] : i \in 1..Len(o.modules) } |-> 1]

\* self._dependency_graph, not a copy
dependency_graph(o) == o.graph

\* dict(self._version_map)
version_map(o) == o.version_map

\* tuple(self._all_except_pseudo)
all_deps_without_pseudo(o) == o.all_except_pseudo

----------------------------------------------------------------------------
(* The caller: it fills a package list, record by record, then constructs *)

\* the number of records (packages and dependencies) of a package list
RECURSIVE Records(_)
Records(pkgs) ==
    IF pkgs = <<>> THEN 0
    ELSE 1 + Len(OrList(Head(pkgs).dependencies)) + Records(Tail(pkgs))

\* a record as parsed from the request: name, version, dependencies (None or [])
Raw(r, dependencies) == [name |-> r[1], version |-> r[2], dependencies |-> dependencies]

\* the dependencies a dependency record may carry itself
Nested == << Raw(<< <<"c", At, "m">>, "0.0.0-b" >>, <<>>) >>

\* the caller appends a top-level package whose dependencies are None or []
AddPackageFrom(records, max) ==
    /\ outcome.kind = "none"
    /\ Records(packages) < max
    /\ \E r \in records, dependencies \in { <<>>, << <<>> >> } :
           packages' = Append(packages, Raw(r, dependencies))
    /\ UNCHANGED <<ecosystem, np, outcome, built, given, prev, result>>

\* the caller appends a dependency record to the last top-level package
AddDependencyFrom(records, max) ==
    /\ outcome.kind = "none"
    /\ packages # <<>>
    /\ Records(packages) < max
    /\ \E r \in records, dependencies \in { <<>>, <<Nested>> } :
           LET last == packages[Len(packages)]
               deps == Append(OrList(last.dependencies), Raw(r, dependencies))
           IN  /\ last.dependencies # << <<>> >>
               /\ packages' = [packages EXCEPT ![Len(packages)].dependencies = <<deps>>]
    /\ UNCHANGED <<ecosystem, np, outcome, built, given, prev, result>>

AddPackage == AddPackageFrom(WellFormed, MaxRecords)
AddDependency == AddDependencyFrom(WellFormed, MaxRecords)
AddPackageViews == AddPackageFrom(WellFormed, MaxRecordsViews)
AddDependencyViews == AddDependencyFrom(WellFormed, MaxRecordsViews)
AddPackageMalformed == AddPackageFrom(WellFormed \cup Malformed, MaxRecordsMalformed)
AddDependencyMalformed == AddDependencyFrom(WellFormed \cup Malformed, MaxRecordsMalformed)

----------------------------------------------------------------------------
(* The constructor calls *)

NoCall == [kind |-> "none", status |-> "none"]

Init ==
    /\ packages = <<>>
    /\ ecosystem \in Ecosystems
    /\ np = NoObject
    /\ outcome = NoCall
    /\ built = EmptyDict
    /\ given = <<>>
    /\ prev = [call |-> NoCall, np |-> NoObject]
    /\ result = [view |-> "none", value |-> {}]

\* NormalizedPackages(packages, ecosystem)
ConstructGeneric ==
    /\ np' = NormalizedPackages(packages, ecosystem)
    /\ outcome' = [kind |-> "generic", status |-> "ok"]
    /\ built' = np'.graph
    /\ given' = packages
    /\ prev' = [call |-> outcome, np |-> np]
    /\ UNCHANGED <<packages, ecosystem, result>>

\* GoNormalizedPackages(packages, ecosystem), which callers use for golang
ConstructGo ==
    /\ ecosystem = "golang"
    /\ LET r == GoNormalizedPackages(packages, ecosystem)
       IN  /\ np' = r.object
           /\ outcome' = [kind |-> "go", status |-> r.status]
           /\ packages' = r.packages
           /\ built' = r.object.graph
    /\ given' = packages
    /\ prev' = [call |-> outcome, np |-> np]
    /\ UNCHANGED <<ecosystem, result>>

----------------------------------------------------------------------------
(* The consumer: it reads the views of the object it holds *)

Returned(view, value) ==
    /\ result' = [view |-> view, value |-> value]
    /\ UNCHANGED <<packages, ecosystem, np, outcome, built, given, prev>>

ReadDirect == np.kind # "none" /\ Returned("direct_dependencies", direct_dependencies(np))
ReadTransitive ==
    np.kind # "none" /\ Returned("transitive_dependencies", transitive_dependencies(np))
ReadAll == np.kind # "none" /\ Returned("all_dependencies", all_dependencies(np))
ReadModules == np.kind = "go" /\ Returned("modules", modules(np))
ReadVersionMap == np.kind = "go" /\ Returned("version_map", version_map(np))
ReadWithoutPseudo ==
    np.kind = "go" /\ Returned("all_deps_without_pseudo", all_deps_without_pseudo(np))

\* dependency_graph[k]: the mapping returned is the defaultdict itself
Lookup ==
    /\ np.kind # "none"
    /\ \E k \in np.all \cup {Absent} :
           /\ np' = [np EXCEPT !.graph = DefaultGet(dependency_graph(np), k)]
           /\ result' = [view |-> "dependency_graph", value |-> np'.graph[k]]
    /\ UNCHANGED <<packages, ecosystem, outcome, built, given, prev>>

----------------------------------------------------------------------------
(* Specifications *)

Next == AddPackage \/ AddDependency \/ ConstructGeneric \/ ConstructGo

Spec == Init /\ [][Next]_vars

NextMalformed ==
    AddPackageMalformed \/ AddDependencyMalformed \/ ConstructGeneric \/ ConstructGo

SpecMalformed == Init /\ [][NextMalformed]_vars

NextViews ==
    \/ AddPackageViews \/ AddDependencyViews \/ ConstructGeneric \/ ConstructGo
    \/ ReadDirect \/ ReadTransitive \/ ReadAll
    \/ ReadModules \/ ReadVersionMap \/ ReadWithoutPseudo \/ Lookup

SpecViews == Init /\ [][NextViews]_vars

----------------------------------------------------------------------------
(* What the claims speak of, stated on the list the constructor was given *)

\* the last constructor call returned an object
Constructed == outcome.status = "ok"

\* the text of a name before its first separator
BareName(name) ==
    IF \E i \in 1..Len(name) : name[i] = At
    THEN LET i == CHOOSE k \in 1..Len(name) :
                      name[k] = At /\ \A j \in 1..(k - 1) : name[j] # At
         IN  SubSeq(name, 1, i - 1)
    ELSE name

\* the text of a name after its first separator
ModuleName(name) ==
    LET i == CHOOSE k \in 1..Len(name) : name[k] = At /\ \A j \in 1..(k - 1) : name[j] # At
    IN  SubSeq(name, i + 1, Len(name))

Separators(name) == Cardinality({ i \in 1..Len(name) : name[i] = At })

Cleaned(version) == clean_version(version)[2]

Verbatim(r) == [name |-> r.name, version |-> r.version]

Stripped(r) == [name |-> BareName(r.name), version |-> Cleaned(r.version)]

\* the identity of a record after the normalization of the constructor called
IdOf(r) == IF outcome.kind = "go" THEN Stripped(r) ELSE Verbatim(r)

Tops == 1..Len(given)

DepsOf(i) == OrList(given[i].dependencies)

DepIds(i) == { IdOf(DepsOf(i)[j]) : j \in 1..Len(DepsOf(i)) }

TopIds == { IdOf(given[i]) : i \in Tops }

\* the records in processing order: a package, its dependencies, the next package
RECURSIVE Flatten(_)
Flatten(pkgs) ==
    IF pkgs = <<>> THEN <<>>
    ELSE <<Head(pkgs)>> \o OrList(Head(pkgs).dependencies) \o Flatten(Tail(pkgs))

IsPseudo(r) == is_pseudo_version(Cleaned(r.version))

\* positions, in processing order, of the pseudo-versioned records
PseudoAt == { k \in 1..Len(Flatten(given)) : IsPseudo(Flatten(given)[k]) }

\* top-level packages that are pseudo or own a pseudo dependency
OwnsPseudo(i) ==
    IsPseudo(given[i]) \/ \E j \in 1..Len(DepsOf(i)) : IsPseudo(DepsOf(i)[j])

----------------------------------------------------------------------------
(* Claims *)

\* C1: an identity that occurs several times at top level has one graph entry,
\* whose dependency set is the union of the dependencies of all its occurrences.
C1_Accumulation ==
    Constructed =>
        \A i \in Tops :
            /\ IdOf(given[i]) \in DOMAIN np.graph
            /\ np.graph[IdOf(given[i])] =
                   UNION { DepIds(j) : j \in { t \in Tops : IdOf(given[t]) = IdOf(given[i]) } }

C1_Witness ==
    /\ Constructed
    /\ outcome.kind = "go"
    /\ \E i, j \in Tops :
           /\ i < j
           /\ given[i].name # given[j].name
           /\ IdOf(given[i]) = IdOf(given[j])
           /\ DepIds(i) # {}
           /\ DepIds(j) = {}

\* C2 (as claimed): every identity of All whose version is not pseudo is in
\* all_deps_without_pseudo.
C2_NonPseudoKept ==
    (Constructed /\ np.kind = "go") =>
        \A id \in all_dependencies(np) :
            ~is_pseudo_version(id.version) => id \in all_deps_without_pseudo(np)

\* C3 (as claimed): a second construction of the same kind from the same list
\* succeeds and yields the same graph and the same direct, transitive and all sets.
C3_Idempotent ==
    (prev.call.status = "ok" /\ outcome.kind = prev.call.kind) =>
        /\ outcome.status = "ok"
        /\ np.graph = prev.np.graph
        /\ np.directs = prev.np.directs
        /\ np.transitives = prev.np.transitives
        /\ np.all = prev.np.all

\* C4 (as claimed): a Go construction fails with BadRequest whenever a record's
\* name has not exactly one separator, and never fails in another way.
C4_OnlyBadRequest ==
    outcome.kind = "go" =>
        /\ outcome.status \in {"ok", "BadRequest"}
        /\ (\E k \in 1..Len(Flatten(given)) : Separators(Flatten(given)[k].name) # 1)
               => outcome.status = "BadRequest"

\* C5 (as claimed): the generic constructor, given the golang tag, keys the graph
\* by the name stripped of its module suffix and the cleaned version.
C5_LegacyPath ==
    (Constructed /\ np.kind = "generic" /\ np.ecosystem = "golang") =>
        DOMAIN np.graph = { Stripped(given[i]) : i \in Tops }

\* C5 (amended): the generic constructor, given the golang tag, keys the graph by
\* the name and the version exactly as given, module suffix included.
C5_Verbatim ==
    (Constructed /\ np.kind = "generic" /\ np.ecosystem = "golang") =>
        DOMAIN np.graph = { Verbatim(given[i]) : i \in Tops }

C5_Witness ==
    /\ Constructed /\ np.kind = "generic" /\ np.ecosystem = "golang"
    /\ \E i \in Tops :
           /\ Separators(given[i].name) = 1
           /\ Cleaned(given[i].version) # given[i].version
           /\ DepsOf(i) = <<>>

\* C6: the keys of the graph, and Directs, are exactly the identities of the
\* top-level packages; a package without dependencies maps to the empty set.
C6_NoLostRoots ==
    Constructed =>
        /\ DOMAIN dependency_graph(np) = TopIds
        /\ direct_dependencies(np) = TopIds
        /\ \A id \in TopIds :
               (\A i \in Tops : IdOf(given[i]) = id => DepsOf(i) = <<>>)
                   => dependency_graph(np)[id] = {}

C6_Witness ==
    /\ Constructed
    /\ \E i \in Tops : DepsOf(i) = <<>> /\ dependency_graph(np)[IdOf(given[i])] = {}
    /\ \E i \in Tops : \E d \in DepIds(i) : d \notin TopIds

\* C7: Transitives is exactly the set of identities of the first-level dependency
\* records, and All is Directs union Transitives.
C7_Coverage ==
    Constructed =>
        /\ transitive_dependencies(np) = UNION { DepIds(i) : i \in Tops }
        /\ all_dependencies(np) = direct_dependencies(np) \cup transitive_dependencies(np)

C7_Witness ==
    /\ Constructed
    /\ \E id \in TopIds : id \in transitive_dependencies(np) /\ id \in all_dependencies(np)
    /\ \E i \in Tops : \E j \in 1..Len(DepsOf(i)) : DepsOf(i)[j].dependencies # <<>>

C9_VersionMapModules ==
    (Constructed /\ np.kind = "go") =>
        LET flat == Flatten(given)
        IN  /\ DOMAIN version_map(np) = { BareName(flat[k].name) : k \in PseudoAt }
            /\ \A k \in PseudoAt :
                   (\A l \in PseudoAt : BareName(flat[l].name) = BareName(flat[k].name) => l <= k)
                       => version_map(np)[BareName(flat[k].name)] = Cleaned(flat[k].version)
            /\ modules(np) = [m \in { ModuleName(flat[k].name) : k \in PseudoAt } |-> 1]

C9_Witness ==
    /\ Constructed /\ np.kind = "go"
    /\ LET flat == Flatten(given)
       IN  \E k, l \in PseudoAt :
               /\ k < l
               /\ BareName(flat[k].name) = BareName(flat[l].name)
               /\ Cleaned(flat[k].version) # Cleaned(flat[l].version)
               /\ \E x, y \in PseudoAt :
                      x # y /\ ModuleName(flat[x].name) = ModuleName(flat[y].name)

\* C10 (as claimed): whatever the consumer reads, the keys of dependency_graph
\* are the set direct_dependencies returns and the graph is as constructed.
C10_ViewsStable ==
    Constructed =>
        /\ DOMAIN dependency_graph(np) = direct_dependencies(np)
        /\ dependency_graph(np) = built

====
